---- MODULE Spec2Model ----
(***************************************************************************)
(* Model of guilimao/webpicviewer: the three read-only filesystem          *)
(* endpoints (list, file, thumbnail; the file endpoint exists in a         *)
(* root-confined and in an unconfined variant) and the client page with    *)
(* its image viewer and preload scheduler.                                 *)
(*                                                                         *)
(* Strings of the program are sequences of one-character strings, so that  *)
(* String.startsWith, String.slice, path.resolve, path.join, path.relative *)
(* and path.extname are computed character by character as Node computes   *)
(* them.                                                                   *)
(***************************************************************************)
EXTENDS Integers, Sequences, FiniteSets, TLC

(***************************************************************************)
(* Bounds of the model.                                                    *)
(***************************************************************************)
\* most directory segments in front of the last segment of a requested path
MaxSegs == 2
\* most entries a directory read returns in the listing specification
MaxEntries == 3
\* the images of the page's home directory and of its subdirectory
BigDir == 25
SmallDir == 2
\* most viewer sessions opened
MaxSessions == 2
\* most list requests the page sends after the one it sends when mounted
MaxFetches == 2
\* most requests the page derives, one from the answer to the other, from
\* the answer to a request
MaxFollowUps == 1

(***************************************************************************)
(* Strings.                                                                *)
(***************************************************************************)
SLASH == "/"
DOT == "."
TILDE == "~"

EmptyStr == << >>

\* String.prototype.startsWith
StartsWith(s, p) ==
    /\ Len(p) <= Len(s)
    /\ SubSeq(s, 1, Len(p)) = p

\* String.prototype.slice(n): the string without its first n characters
Slice(s, n) == SubSeq(s, n + 1, Len(s))

\* String.prototype.toLowerCase on the letters the model's names use
LowerChar(c) ==
    CASE c = "A" -> "a"
      [] c = "B" -> "b"
      [] c = "F" -> "f"
      [] c = "G" -> "g"
      [] c = "I" -> "i"
      [] OTHER -> c

ToLowerCase(s) == [i \in 1..Len(s) |-> LowerChar(s[i])]

\* the segments of s between separators (String.split('/'))
RECURSIVE SplitFrom(_, _, _)
SplitFrom(s, i, cur) ==
    IF i > Len(s) THEN << cur >>
    ELSE IF s[i] = SLASH THEN << cur >> \o SplitFrom(s, i + 1, EmptyStr)
    ELSE SplitFrom(s, i + 1, Append(cur, s[i]))

Split(s) == SplitFrom(s, 1, EmptyStr)

\* Array.prototype.join('/')
RECURSIVE JoinSegs(_)
JoinSegs(segs) ==
    IF Len(segs) = 0 THEN EmptyStr
    ELSE IF Len(segs) = 1 THEN segs[1]
    ELSE segs[1] \o << SLASH >> \o JoinSegs(Tail(segs))

(***************************************************************************)
(* Node's posix path module.                                               *)
(***************************************************************************)
DotDot == << DOT, DOT >>

\* normalizeString: drops empty and "." segments, resolves ".." against the
\* segment before it; above the top ".." is kept only when allowAboveRoot
RECURSIVE NormalizeSegs(_, _, _)
NormalizeSegs(segs, acc, allowAboveRoot) ==
    IF Len(segs) = 0 THEN acc
    ELSE LET s == Head(segs)
             rest == Tail(segs)
         IN IF s = EmptyStr \/ s = << DOT >>
            THEN NormalizeSegs(rest, acc, allowAboveRoot)
            ELSE IF s = DotDot
            THEN IF Len(acc) > 0 /\ acc[Len(acc)] # DotDot
                 THEN NormalizeSegs(rest, SubSeq(acc, 1, Len(acc) - 1), allowAboveRoot)
                 ELSE IF allowAboveRoot
                 THEN NormalizeSegs(rest, Append(acc, DotDot), allowAboveRoot)
                 ELSE NormalizeSegs(rest, acc, allowAboveRoot)
            ELSE NormalizeSegs(rest, Append(acc, s), allowAboveRoot)

NormalizeString(p, allowAboveRoot) ==
    JoinSegs(NormalizeSegs(Split(p), << >>, allowAboveRoot))

IsAbsolute(p) == Len(p) > 0 /\ p[1] = SLASH

\* path.normalize
Normalize(p) ==
    IF Len(p) = 0 THEN << DOT >>
    ELSE LET abs == IsAbsolute(p)
             trailing == p[Len(p)] = SLASH
             n == NormalizeString(p, ~abs)
         IN IF Len(n) = 0
            THEN IF abs THEN << SLASH >>
                 ELSE IF trailing THEN << DOT, SLASH >> ELSE << DOT >>
            ELSE (IF abs THEN << SLASH >> ELSE EmptyStr)
                 \o n \o (IF trailing THEN << SLASH >> ELSE EmptyStr)

\* path.join(a, b): the non-empty arguments joined by '/', then normalized
PathJoin(a, b) ==
    IF Len(a) = 0 /\ Len(b) = 0 THEN << DOT >>
    ELSE IF Len(a) = 0 THEN Normalize(b)
    ELSE IF Len(b) = 0 THEN Normalize(a)
    ELSE Normalize(a \o << SLASH >> \o b)

\* path.resolve(base, p) for an absolute base: p alone when p is absolute,
\* else base/p; normalized, always absolute, no trailing separator
PathResolve(base, p) ==
    LET full == IF IsAbsolute(p) THEN p
                ELSE IF Len(p) = 0 THEN base
                ELSE base \o << SLASH >> \o p
    IN << SLASH >> \o NormalizeString(full, FALSE)

\* the last segment of a path (path.basename without a suffix)
Basename(p) ==
    LET segs == NormalizeSegs(Split(p), << >>, TRUE)
    IN IF Len(segs) = 0 THEN EmptyStr ELSE segs[Len(segs)]

\* the index of the last '.' of s, 0 when there is none
RECURSIVE LastDot(_, _)
LastDot(s, i) ==
    IF i = 0 THEN 0
    ELSE IF s[i] = DOT THEN i
    ELSE LastDot(s, i - 1)

\* path.extname: from the last '.' of the last segment to its end; empty
\* when there is no '.', when the only '.' is the segment's first character
\* and for the segment ".."
Extname(p) ==
    LET b == Basename(p)
        d == LastDot(b, Len(b))
    IN IF d <= 1 \/ b = DotDot THEN EmptyStr
       ELSE SubSeq(b, d, Len(b))

\* the length of the longest common prefix of two segment sequences
RECURSIVE CommonLen(_, _)
CommonLen(a, b) ==
    IF Len(a) = 0 \/ Len(b) = 0 \/ Head(a) # Head(b) THEN 0
    ELSE 1 + CommonLen(Tail(a), Tail(b))

\* path.relative(from, to) for absolute, normalized from and to
PathRelative(from, to) ==
    LET f == NormalizeSegs(Split(from), << >>, FALSE)
        t == NormalizeSegs(Split(to), << >>, FALSE)
        c == CommonLen(f, t)
        ups == [i \in 1..(Len(f) - c) |-> DotDot]
    IN JoinSegs(ups \o SubSeq(t, c + 1, Len(t)))

(***************************************************************************)
(* The process environment and the names the model's requests use.         *)
(***************************************************************************)
\* process.cwd(), the project root
rootDir == << "/", "r" >>
\* os.homedir()
homeDir == << "/", "h" >>

\* values of the environment variable ALLOW_OUTSIDE_ROOT
\* ("unset" stands for the undefined value of an unset variable)
EnvValues == { "unset", "true", "1" }

Seg_r == << "r" >>
Seg_sibling == << "r", "-", "e" >>
Seg_h == << "h" >>
Seg_tilde == << TILDE >>
Name_png == << "a", ".", "p", "n", "g" >>
Name_GIF == << "b", ".", "G", "I", "F" >>
Name_tif == << "c", ".", "t", "i", "f" >>
Name_tiff == << "d", ".", "t", "i", "f", "f" >>
Name_txt == << "e", ".", "t", "x", "t" >>
Name_jpg == << "f", ".", "j", "p", "g" >>
Name_svg == << "g", ".", "s", "v", "g" >>
Name_plain == << "k" >>
Name_tildeK == << TILDE, "k" >>

\* the segments in front of the last segment of a requested path; the empty
\* segment in first place makes the path absolute
DirSegs == { EmptyStr, Seg_r, Seg_sibling, DotDot, Seg_tilde }

\* the last segment of a requested path
LastSegs == { EmptyStr, Seg_r, Seg_sibling, DotDot, Seg_tilde, Name_tildeK,
              Name_png, Name_GIF, Name_tif, Name_tiff, Name_txt, Name_jpg,
              Name_svg, Name_plain }

RECURSIVE SeqsUpTo(_, _)
SeqsUpTo(S, n) ==
    IF n = 0 THEN { << >> }
    ELSE LET shorter == SeqsUpTo(S, n - 1)
         IN shorter \cup { Append(q, e) : q \in shorter, e \in S }

\* the values of the `path` query parameter the model sends; the empty
\* string also stands for a request without the parameter (both are falsy)
ReqPaths ==
    { JoinSegs(Append(d, l)) : d \in SeqsUpTo(DirSegs, MaxSegs), l \in LastSegs }

(***************************************************************************)
(* Extensions and content types.                                           *)
(***************************************************************************)
Ext_jpg == << ".", "j", "p", "g" >>
Ext_jpeg == << ".", "j", "p", "e", "g" >>
Ext_png == << ".", "p", "n", "g" >>
Ext_gif == << ".", "g", "i", "f" >>
Ext_bmp == << ".", "b", "m", "p" >>
Ext_webp == << ".", "w", "e", "b", "p" >>
Ext_svg == << ".", "s", "v", "g" >>
Ext_ico == << ".", "i", "c", "o" >>
Ext_tiff == << ".", "t", "i", "f", "f" >>
Ext_tif == << ".", "t", "i", "f" >>

ImagePrefix == << "i", "m", "a", "g", "e", "/" >>
Mime_jpeg == << "i", "m", "a", "g", "e", "/", "j", "p", "e", "g" >>
Mime_png == << "i", "m", "a", "g", "e", "/", "p", "n", "g" >>
Mime_gif == << "i", "m", "a", "g", "e", "/", "g", "i", "f" >>
Mime_bmp == << "i", "m", "a", "g", "e", "/", "b", "m", "p" >>
Mime_webp == << "i", "m", "a", "g", "e", "/", "w", "e", "b", "p" >>
Mime_svg == << "i", "m", "a", "g", "e", "/", "s", "v", "g", "+", "x", "m", "l" >>
Mime_ico == << "i", "m", "a", "g", "e", "/", "x", "-", "i", "c", "o", "n" >>
Mime_tiff == << "i", "m", "a", "g", "e", "/", "t", "i", "f", "f" >>
Mime_octet == << "a", "p", "p", "l", "i", "c", "a", "t", "i", "o", "n", "/", "o", "c", "t", "e", "t", "-", "s", "t", "r", "e", "a", "m" >>
Fmt_gif == << "g", "i", "f" >>
Fmt_tiff == << "t", "i", "f", "f" >>
Fmt_png == << "p", "n", "g" >>

\* getContentType: the fixed table, application/octet-stream for the rest
getContentType(ext) ==
    CASE ext = Ext_jpg -> Mime_jpeg
      [] ext = Ext_jpeg -> Mime_jpeg
      [] ext = Ext_png -> Mime_png
      [] ext = Ext_gif -> Mime_gif
      [] ext = Ext_bmp -> Mime_bmp
      [] ext = Ext_webp -> Mime_webp
      [] ext = Ext_svg -> Mime_svg
      [] ext = Ext_ico -> Mime_ico
      [] ext = Ext_tiff -> Mime_tiff
      [] ext = Ext_tif -> Mime_tiff
      [] OTHER -> Mime_octet

\* supportedImageExts of the thumbnail handler
supportedImageExts ==
    { Ext_jpg, Ext_jpeg, Ext_png, Ext_gif, Ext_bmp, Ext_webp, Ext_tiff, Ext_tif,
      Ext_svg, Ext_ico }

\* the thumbnail handler's outputFormat: the extension without its dot,
\* 'png' when that is 'gif' or 'tiff'
ThumbOutputFormat(ext) ==
    LET f == Slice(ext, 1)
    IN IF f = Fmt_gif \/ f = Fmt_tiff THEN Fmt_png ELSE f

\* the thumbnail handler's Content-Type for a resized image
ThumbContentType(ext) == ImagePrefix \o ThumbOutputFormat(ext)

\* the encodings the bytes of the model's files have ("text": no image)
Encodings == { "jpeg", "png", "gif", "tiff", "svg", "text" }

\* sharp(buffer).resize(...).toBuffer() with no output format set: the
\* encodings the returned buffer can have.  The output keeps the format the
\* input bytes are in; SVG is rendered to PNG; GIF is written as GIF by the
\* builds that can write it and as PNG by the others; input sharp cannot
\* decode has no output (the call throws).
SharpOutputs(enc) ==
    CASE enc \in { "jpeg", "png", "webp", "tiff" } -> { enc }
      [] enc = "gif" -> { "gif", "png" }
      [] enc = "svg" -> { "png" }
      [] OTHER -> { }

(***************************************************************************)
(* Path resolution of the handlers.                                        *)
(***************************************************************************)
\* allowOutside of the root-confined file handler
AllowOutside(env) == env = "true" \/ env = "1"

\* "if (p.startsWith('~')) p = path.join(homeDir, p.slice(1))"
ExpandHome(p) ==
    IF StartsWith(p, << TILDE >>) THEN PathJoin(homeDir, Slice(p, 1)) ELSE p

\* absolutePath of the root-confined file handler: path.resolve(rootDir, filePath)
ConfinedResolve(p) == PathResolve(rootDir, p)

\* absolutePath of the list, unconfined file and thumbnail handlers:
\* path.resolve of the home-expanded path, against the working directory
FreeResolve(p) == PathResolve(rootDir, ExpandHome(p))

\* the confinement test of the root-confined file handler
PassesRootCheck(env, abs) == AllowOutside(env) \/ StartsWith(abs, rootDir)

Handlers == { "list", "fileConfined", "fileFree", "thumbnail" }

\* whether handler h answers the requested path p with the 403 of the
\* confinement check: the root-confined file handler is the one handler
\* that has such a check
Refuses(h, env, p) ==
    h = "fileConfined" /\ ~PassesRootCheck(env, ConfinedResolve(p))

(***************************************************************************)
(* Directory listing.                                                      *)
(***************************************************************************)
\* the order of the characters under the locale's collation: punctuation
\* before letters, letters alphabetically whatever their case
CollationOrder ==
    << "-", ".", "/", "~", "a", "b", "c", "d", "e", "f", "g", "h", "i", "j", "k",
       "l", "m", "n", "o", "p", "q", "r", "s", "t", "u", "v", "w", "x", "y", "z" >>

CollationRank(c) ==
    CHOOSE i \in 1..Len(CollationOrder) : CollationOrder[i] = LowerChar(c)

\* -1, 0 or 1 as the integer sequence a is before, equal to or after b
RECURSIVE CompareInts(_, _)
CompareInts(a, b) ==
    IF Len(a) = 0 /\ Len(b) = 0 THEN 0
    ELSE IF Len(a) = 0 THEN -1
    ELSE IF Len(b) = 0 THEN 1
    ELSE IF Head(a) < Head(b) THEN -1
    ELSE IF Head(a) > Head(b) THEN 1
    ELSE CompareInts(Tail(a), Tail(b))

\* String.prototype.localeCompare: the letters decide first, case apart;
\* between names with the same letters the lower-case one comes first
LocaleCompare(a, b) ==
    LET primary == CompareInts([i \in 1..Len(a) |-> CollationRank(a[i])],
                               [i \in 1..Len(b) |-> CollationRank(b[i])])
        tertiary == CompareInts([i \in 1..Len(a) |-> IF LowerChar(a[i]) = a[i] THEN 0 ELSE 1],
                                [i \in 1..Len(b) |-> IF LowerChar(b[i]) = b[i] THEN 0 ELSE 1])
    IN IF primary # 0 THEN primary ELSE tertiary

\* Dirent.isDirectory(): false for files, symbolic links and the rest
IsDirectory(d) == d.kind = "dir"

\* the filter of the list handler: names that do not start with '.'
IsVisible(d) == ~StartsWith(d.name, << DOT >>)

\* a comparator that forgets to put the directories first
CompareItemsByNameOnly(a, b) == LocaleCompare(a.name, b.name)

\* the comparator of the list handler's sort
CompareItems(a, b) ==
    IF IsDirectory(a) /\ ~IsDirectory(b) THEN -1
    ELSE IF ~IsDirectory(a) /\ IsDirectory(b) THEN 1
    ELSE LocaleCompare(a.name, b.name)

\* Array.prototype.sort is stable: an element goes behind the elements
\* that do not compare after it
RECURSIVE InsertSorted(_, _)
InsertSorted(sorted, e) ==
    IF Len(sorted) = 0 THEN << e >>
    ELSE IF CompareItems(sorted[Len(sorted)], e) <= 0 THEN Append(sorted, e)
    ELSE Append(InsertSorted(SubSeq(sorted, 1, Len(sorted) - 1), e), sorted[Len(sorted)])

RECURSIVE SortFrom(_, _)
SortFrom(sorted, rest) ==
    IF Len(rest) = 0 THEN sorted
    ELSE SortFrom(InsertSorted(sorted, Head(rest)), Tail(rest))

SortItems(items) == SortFrom(<< >>, items)

\* one element of the list response's items
FormatItem(abs, d) ==
    [ name |-> d.name,
      type |-> IF IsDirectory(d) THEN "directory" ELSE "file",
      path |-> PathRelative(rootDir, PathJoin(abs, d.name)),
      ext |-> IF IsDirectory(d) THEN EmptyStr ELSE ToLowerCase(Extname(d.name)) ]

\* the items of the list response for the entries readdir returned
ListItems(abs, entries) ==
    LET sortedItems == SortItems(SelectSeq(entries, IsVisible))
    IN [ i \in 1..Len(sortedItems) |-> FormatItem(abs, sortedItems[i]) ]

\* the directory entries the model's directories hold
Dirents ==
    { [ name |-> << ".", "h" >>, kind |-> "file" ],
      [ name |-> << ".", "d" >>, kind |-> "dir" ],
      [ name |-> Name_png, kind |-> "file" ],
      [ name |-> << "B", ".", "p", "n", "g" >>, kind |-> "file" ],
      [ name |-> << "b", ".", "p", "n", "g" >>, kind |-> "file" ],
      [ name |-> Name_tildeK, kind |-> "file" ],
      [ name |-> << "s", "u", "b" >>, kind |-> "dir" ],
      [ name |-> << "A", "r", "t" >>, kind |-> "dir" ],
      [ name |-> << "l", "n", "k" >>, kind |-> "link" ] }

\* what readdir can return: the entries of a directory, each name once, in
\* any order
RECURSIVE DirReads(_)
DirReads(n) ==
    IF n = 0 THEN { << >> }
    ELSE LET shorter == DirReads(n - 1)
             longest == { r \in shorter : Len(r) = n - 1 }
             Fresh(q) == { d \in Dirents : \A i \in 1..Len(q) : q[i].name # d.name }
         IN shorter \cup UNION { { Append(q, d) : d \in Fresh(q) } : q \in longest }

\* the directory reads of the request specification
FewReads ==
    { << >>,
      << [ name |-> Name_png, kind |-> "file" ], [ name |-> << "s", "u", "b" >>, kind |-> "dir" ],
         [ name |-> << ".", "h" >>, kind |-> "file" ] >> }

\* the requested paths of the listing specification
FewPaths == { EmptyStr, Seg_r, JoinSegs(<< EmptyStr, Seg_h >>), JoinSegs(<< Seg_tilde, Seg_r >>) }

VARIABLES
    envAllow,   \* process.env.ALLOW_OUTSIDE_ROOT
    handler,    \* the route handler serving the request in progress
    reqPath,    \* searchParams.get('path')
    pc,         \* the handler's position: idle, stat, read, readdir, sharp, done
    absPath,    \* absolutePath
    statRes,    \* what fs.stat answered for absPath
    fileBytes,  \* the encoding of fileBuffer
    dirEntries, \* what fs.readdir returned
    fsLog,      \* the filesystem and decoder calls the handler has issued
    resp        \* the response returned

serverVars == << envAllow, handler, reqPath, pc, absPath, statRes, fileBytes, dirEntries, fsLog, resp >>

\* the page (the Home component): its React state, what its closures hold
\* and the browser state it works on
VARIABLES
    currentPath,         \* currentPath
    directoryData,       \* directoryData: the listing held, "null" before the first
    loading,             \* loading
    error,               \* error: "null" or the message
    inFlight,            \* the list requests of fetchDirectory still unanswered
    issuedFetches,       \* how many list requests fetchDirectory has sent
    viewerOpen,          \* viewerOpen
    currentImageIndex,   \* currentImageIndex
    imageList,           \* imageList
    currentImagePath,    \* currentImagePath
    preloadedImages,     \* preloadedImages
    lastPreloadedIndex,  \* lastPreloadedIndex
    failedThumbnails,    \* failedThumbnails
    keyHandler,          \* the state the registered keydown listener closed over
    timers,              \* the pending timeouts of openImageViewerWithPreload
    fullscreen,          \* document.fullscreenElement is set
    fsPending,           \* a requestFullscreen or exitFullscreen not yet settled
    sessions,            \* how many viewer sessions have been opened
    warmRequests,        \* the image paths fetched for warming since the open
    duplicateWarms,      \* those of them fetched for warming more than once
    lastResponse         \* the list request answered last and whether it succeeded

pageVars == << currentPath, directoryData, loading, error, inFlight, issuedFetches,
               failedThumbnails, lastResponse >>
viewerVars == << viewerOpen, currentImageIndex, imageList, currentImagePath,
                 keyHandler, fullscreen, fsPending, sessions >>
preloadVars == << preloadedImages, lastPreloadedIndex, timers, warmRequests, duplicateWarms >>
clientVars == << pageVars, viewerVars, preloadVars >>
vars == << serverVars, clientVars >>

NoResp == [ status |-> 0, error |-> "", contentType |-> EmptyStr, body |-> "none",
            items |-> << >>, path |-> EmptyStr, absolutePath |-> EmptyStr ]

JsonError(status, msg) == [ NoResp EXCEPT !.status = status, !.error = msg ]

ServerInit ==
    /\ envAllow \in EnvValues
    /\ handler = "none"
    /\ reqPath = EmptyStr
    /\ pc = "idle"
    /\ absPath = EmptyStr
    /\ statRes = "none"
    /\ fileBytes = "none"
    /\ dirEntries = << >>
    /\ fsLog = << >>
    /\ resp = NoResp

(***************************************************************************)
(* The handlers.  A handler runs from its start to each await in one step; *)
(* what the filesystem and the decoder answer is chosen at the step that   *)
(* asks.                                                                   *)
(***************************************************************************)
StatResults == { "ENOENT", "EACCES", "file", "dir" }

Finish(r) ==
    /\ resp' = r
    /\ pc' = "done"

\* ---- the root-confined file handler -------------------------------------
FileConfinedBegin(p) ==
    /\ handler' = "fileConfined"
    /\ reqPath' = p
    /\ IF p = EmptyStr
       THEN /\ absPath' = EmptyStr
            /\ Finish(JsonError(400, "Missing path parameter"))
       ELSE LET abs == ConfinedResolve(p)
            IN /\ absPath' = abs
               /\ IF Refuses("fileConfined", envAllow, p)
                  THEN Finish(JsonError(403, "Access denied. To access outside the project root, set ALLOW_OUTSIDE_ROOT=true"))
                  ELSE /\ pc' = "stat"
                       /\ resp' = NoResp
    /\ UNCHANGED << envAllow, statRes, fileBytes, dirEntries, fsLog,
                    clientVars >>

FileConfinedStart(paths) ==
    /\ pc = "idle"
    /\ \E p \in paths : FileConfinedBegin(p)

\* "const stat = await fs.stat(absolutePath)" of both file handlers
FileStat(h) ==
    /\ pc = "stat"
    /\ handler = h
    /\ fsLog' = Append(fsLog, "stat")
    /\ \E r \in StatResults :
          /\ statRes' = r
          /\ CASE r = "dir" -> Finish(JsonError(400, "Path is a directory, not a file"))
               [] r = "file" -> pc' = "read" /\ resp' = NoResp
               [] OTHER -> Finish(JsonError(404, "File not found"))
    /\ UNCHANGED << envAllow, handler, reqPath, absPath, fileBytes, dirEntries,
                    clientVars >>

\* "const fileBuffer = await fs.readFile(absolutePath)" of both file handlers
FileRead(h) ==
    /\ pc = "read"
    /\ handler = h
    /\ fsLog' = Append(fsLog, "readFile")
    /\ \/ \E enc \in Encodings :
             /\ fileBytes' = enc
             /\ Finish([ NoResp EXCEPT !.status = 200,
                                       !.contentType = getContentType(ToLowerCase(Extname(absPath))),
                                       !.body = enc ])
       \/ /\ fileBytes' = "none"
          /\ Finish(JsonError(500, "Internal server error"))
    /\ UNCHANGED << envAllow, handler, reqPath, absPath, statRes, dirEntries,
                    clientVars >>

FileConfinedStat == FileStat("fileConfined")
FileConfinedRead == FileRead("fileConfined")

\* ---- the unconfined file handler ----------------------------------------
FileFreeBegin(p) ==
    /\ handler' = "fileFree"
    /\ reqPath' = p
    /\ IF p = EmptyStr
       THEN /\ absPath' = EmptyStr
            /\ Finish(JsonError(400, "Missing path parameter"))
       ELSE /\ absPath' = FreeResolve(p)
            /\ pc' = "stat"
            /\ resp' = NoResp
    /\ UNCHANGED << envAllow, statRes, fileBytes, dirEntries, fsLog,
                    clientVars >>

FileFreeStart(paths) ==
    /\ pc = "idle"
    /\ \E p \in paths : FileFreeBegin(p)

FileFreeStat == FileStat("fileFree")
FileFreeRead == FileRead("fileFree")

\* ---- the list handler ---------------------------------------------------
ListBegin(p) ==
    /\ handler' = "list"
    /\ reqPath' = p
    /\ absPath' = FreeResolve(IF p = EmptyStr THEN << TILDE >> ELSE p)
    /\ pc' = "stat"
    /\ resp' = NoResp
    /\ UNCHANGED << envAllow, statRes, fileBytes, dirEntries, fsLog,
                    clientVars >>

ListStart(paths) ==
    /\ pc = "idle"
    /\ \E p \in paths : ListBegin(p)

ListStat ==
    /\ pc = "stat"
    /\ handler = "list"
    /\ fsLog' = Append(fsLog, "stat")
    /\ \E r \in StatResults :
          /\ statRes' = r
          /\ CASE r = "dir" -> pc' = "readdir" /\ resp' = NoResp
               [] r = "file" -> Finish(JsonError(400, "Path is not a directory"))
               [] OTHER -> Finish(JsonError(404, "Directory not found"))
    /\ UNCHANGED << envAllow, handler, reqPath, absPath, fileBytes, dirEntries,
                    clientVars >>

ListReaddir(reads) ==
    /\ pc = "readdir"
    /\ handler = "list"
    /\ fsLog' = Append(fsLog, "readdir")
    /\ \/ \E entries \in reads :
             /\ dirEntries' = entries
             /\ Finish([ NoResp EXCEPT !.status = 200,
                                       !.path = absPath,
                                       !.absolutePath = absPath,
                                       !.items = ListItems(absPath, entries) ])
       \/ /\ dirEntries' = << >>
          /\ Finish(JsonError(500, "Internal server error"))
    /\ UNCHANGED << envAllow, handler, reqPath, absPath, statRes, fileBytes,
                    clientVars >>

\* ---- the thumbnail handler ----------------------------------------------
ThumbBegin(p) ==
    /\ handler' = "thumbnail"
    /\ reqPath' = p
    /\ IF p = EmptyStr
       THEN /\ absPath' = EmptyStr
            /\ Finish(JsonError(400, "Missing path parameter"))
       ELSE /\ absPath' = FreeResolve(p)
            /\ pc' = "stat"
            /\ resp' = NoResp
    /\ UNCHANGED << envAllow, statRes, fileBytes, dirEntries, fsLog,
                    clientVars >>

ThumbStart(paths) ==
    /\ pc = "idle"
    /\ \E p \in paths : ThumbBegin(p)

ThumbExt == ToLowerCase(Extname(absPath))

\* a thumbnail handler that forgets the check of the extension
ThumbStatWithoutTypeCheck ==
    /\ pc = "stat"
    /\ handler = "thumbnail"
    /\ fsLog' = Append(fsLog, "stat")
    /\ \E r \in StatResults :
          /\ statRes' = r
          /\ CASE r = "dir" -> Finish(JsonError(400, "Path is a directory, not a file"))
               [] r = "file" -> pc' = "read" /\ resp' = NoResp
               [] OTHER -> Finish(JsonError(404, "File not found"))
    /\ UNCHANGED << envAllow, handler, reqPath, absPath, fileBytes, dirEntries,
                    clientVars >>

ThumbStat ==
    /\ pc = "stat"
    /\ handler = "thumbnail"
    /\ fsLog' = Append(fsLog, "stat")
    /\ \E r \in StatResults :
          /\ statRes' = r
          /\ CASE r = "dir" -> Finish(JsonError(400, "Path is a directory, not a file"))
               [] r = "file" ->
                    IF ThumbExt \notin supportedImageExts
                    THEN Finish(JsonError(400, "File is not a supported image type"))
                    ELSE pc' = "read" /\ resp' = NoResp
               [] OTHER -> Finish(JsonError(404, "File not found"))
    /\ UNCHANGED << envAllow, handler, reqPath, absPath, fileBytes, dirEntries,
                    clientVars >>

ThumbRead ==
    /\ pc = "read"
    /\ handler = "thumbnail"
    /\ fsLog' = Append(fsLog, "readFile")
    /\ \/ \E enc \in Encodings :
             /\ fileBytes' = enc
             /\ IF ThumbExt = Ext_svg \/ ThumbExt = Ext_ico
                THEN Finish([ NoResp EXCEPT !.status = 200,
                                            !.contentType = IF ThumbExt = Ext_svg THEN Mime_svg ELSE Mime_ico,
                                            !.body = enc ])
                ELSE pc' = "sharp" /\ resp' = NoResp
       \/ /\ fileBytes' = "none"
          /\ Finish(JsonError(500, "Failed to generate thumbnail"))
    /\ UNCHANGED << envAllow, handler, reqPath, absPath, statRes, dirEntries,
                    clientVars >>

ThumbSharp ==
    /\ pc = "sharp"
    /\ handler = "thumbnail"
    /\ fsLog' = Append(fsLog, "sharp")
    /\ \/ \E out \in SharpOutputs(fileBytes) :
             Finish([ NoResp EXCEPT !.status = 200,
                                    !.contentType = ThumbContentType(ThumbExt),
                                    !.body = out ])
       \/ Finish(JsonError(500, "Failed to generate thumbnail"))
    /\ UNCHANGED << envAllow, handler, reqPath, absPath, statRes, fileBytes, dirEntries,
                    clientVars >>

\* the response is sent; the next request finds a fresh handler
Respond ==
    /\ pc = "done"
    /\ handler' = "none"
    /\ reqPath' = EmptyStr
    /\ pc' = "idle"
    /\ absPath' = EmptyStr
    /\ statRes' = "none"
    /\ fileBytes' = "none"
    /\ dirEntries' = << >>
    /\ fsLog' = << >>
    /\ resp' = NoResp
    /\ UNCHANGED << envAllow, clientVars >>

ServerNext ==
    \/ FileConfinedStart(ReqPaths)
    \/ FileConfinedStat
    \/ FileConfinedRead
    \/ FileFreeStart(ReqPaths)
    \/ FileFreeStat
    \/ FileFreeRead
    \/ ListStart(ReqPaths)
    \/ ListStat
    \/ ListReaddir(FewReads)
    \/ ThumbStart(ReqPaths)
    \/ ThumbStat
    \/ ThumbRead
    \/ ThumbSharp
    \/ Respond


\* ---- the requests the page derives from a list response -----------------
\* the segments of handleGoUp: currentPath.split('/').filter(part => part.length > 0)
GoUpParts(path) == SelectSeq(Split(path), LAMBDA part : Len(part) > 0)

\* the path handleGoUp passes to fetchDirectory; called with two parts or more
GoUpTarget(path) ==
    LET parts == GoUpParts(path)
        parentPath == JoinSegs(SubSeq(parts, 1, Len(parts) - 1))
    IN IF parentPath = EmptyStr THEN << SLASH >> ELSE parentPath

\* the page holds the listing of the list response just returned
HoldsListing ==
    /\ pc = "done"
    /\ handler = "list"
    /\ resp.status = 200
    /\ Len(fsLog) <= 2 * MaxFollowUps

\* the go-up button: handleGoUp on currentPath, the path of the response
handleGoUp ==
    /\ HoldsListing
    /\ Len(GoUpParts(resp.path)) > 1
    /\ ListBegin(GoUpTarget(resp.path))

\* the page sends the path of the item of index i back: a directory to the
\* list endpoint (double click), a file to the file endpoint (viewer, warm
\* request) and to the thumbnail endpoint (grid)
OpenEntry(h, i) ==
    /\ HoldsListing
    /\ i \in 1..Len(resp.items)
    /\ LET item == resp.items[i]
       IN CASE h = "list" -> item.type = "directory" /\ ListBegin(item.path)
            [] h = "fileConfined" -> item.type = "file" /\ FileConfinedBegin(item.path)
            [] h = "fileFree" -> item.type = "file" /\ FileFreeBegin(item.path)
            [] OTHER -> item.type = "file" /\ ThumbBegin(item.path)

\* the directory reads behind the listings the page derives requests from
RoundTripReads ==
    FewReads \cup
    { << [ name |-> Name_tildeK, kind |-> "dir" ],
         [ name |-> << "~", "a", ".", "p", "n", "g" >>, kind |-> "file" ] >> }

\* the directories listed there: those of the listing specification and
\* the root directory itself
RoundTripPaths == FewPaths \cup { rootDir }

\* the indices of the items of a list response
ItemIndices == 1..MaxEntries

\* a list request, its answer and the requests the page derives from it
RoundTripNext ==
    \/ ListStart(RoundTripPaths)
    \/ ListStat
    \/ ListReaddir(RoundTripReads)
    \/ handleGoUp
    \/ \E h \in Handlers : \E i \in ItemIndices : OpenEntry(h, i)
    \/ FileConfinedStat
    \/ FileConfinedRead
    \/ FileFreeStat
    \/ FileFreeRead
    \/ ThumbStat
    \/ ThumbRead
    \/ ThumbSharp
    \/ Respond

\* the list handler alone
NextListing ==
    \/ ListStart(FewPaths)
    \/ ListStat
    \/ ListReaddir(DirReads(MaxEntries))
    \/ Respond

(***************************************************************************)
(* The page.  Every handler runs to its end in one step: its state         *)
(* updates are committed together and the effects whose dependencies       *)
(* changed run before the next event.  A closure keeps the state of the    *)
(* render that created it.                                                 *)
(***************************************************************************)
PRELOAD_BATCH_SIZE == 20
\* navigateImage warms more when newIndex > lastPreloadedIndex - 10
PRELOAD_MARGIN == 10

\* the directories the server lists: the home directory "A", which holds
\* the directory "B"
Dirs == { "A", "B" }
SubDirs(d) == IF d = "A" THEN { "B" } ELSE { }

\* how many image files the listing of d holds; the image of index i of the
\* listing has the path << d, i >>; "none" is the empty image list
ImageCount(d) ==
    CASE d = "A" -> BigDir
      [] d = "B" -> SmallDir
      [] OTHER -> 0

NoPath == << "none", 0 >>

IMAGE_EXTS ==
    { Ext_jpg, Ext_jpeg, Ext_png, Ext_gif, Ext_bmp, Ext_webp, Ext_svg, Ext_tiff, Ext_tif,
      Ext_ico }

Ext_txt == << ".", "t", "x", "t" >>

\* the items of a listing: a directory, a file that is not an image, the
\* image file of index k
DirItem(d) == [ type |-> "directory", ext |-> EmptyStr, path |-> << d, -1 >> ]
OtherItem(d) == [ type |-> "file", ext |-> Ext_txt, path |-> << d, -2 >> ]
ImageItem(d, k) == [ type |-> "file", ext |-> Ext_png, path |-> << d, k >> ]

\* directoryData.items of the listing of d: the directories first, then the
\* files, a file that is not an image after the first image
Items(d) ==
    LET n == ImageCount(d)
        dirs == IF SubDirs(d) = { } THEN << >>
                ELSE << DirItem(CHOOSE sub \in SubDirs(d) : TRUE) >>
        head == IF n = 0 THEN << OtherItem(d) >> ELSE << ImageItem(d, 0), OtherItem(d) >>
    IN dirs \o head \o [ k \in 1..(n - 1) |-> ImageItem(d, k) ]

\* the filter of openImageViewerWithPreload
IsImageItem(item) == item.type = "file" /\ ToLowerCase(item.ext) \in IMAGE_EXTS

\* an image list that keeps every item of the listing
ImageItemsUnfiltered(d) == IF d \in Dirs THEN Items(d) ELSE << >>

\* imageItems of openImageViewerWithPreload
ImageItems(d) == IF d \in Dirs THEN SelectSeq(Items(d), IsImageItem) ELSE << >>

\* Array.prototype.findIndex on the path
FindIndex(items, path) ==
    LET found == { k \in 1..Len(items) : items[k].path = path }
    IN IF found = { } THEN -1
       ELSE (CHOOSE k \in found : \A j \in found : k <= j) - 1

\* the paths the page asks the list endpoint for
ListTargets == { "~", "B", "bad" }

\* the listing the list endpoint answers a path with, "null" for its error
ListingOf(path) ==
    CASE path = "~" -> "A"
      [] path \in Dirs -> path
      [] OTHER -> "null"

\* the images whose thumbnail can fail to load
FlakyThumbs == { << "A", 0 >> }

\* the indices of the images the user opens the viewer on
StartIndices == { 0, 10 }

Min(a, b) == IF a < b THEN a ELSE b

\* the state a closure created by the current render holds
Snapshot(open, index, list, last, pre) ==
    [ open |-> open, index |-> index, list |-> list, last |-> last, pre |-> pre ]

\* the keydown listeners on window: the effect removes the one of the
\* previous render and adds the one of the current render, open or closed
KeydownListeners == { keyHandler }

ClientInit ==
    /\ currentPath = "~"
    /\ directoryData = "null"
    /\ loading = TRUE
    /\ error = "null"
    /\ inFlight = { [ id |-> 1, path |-> "~" ] }
    /\ issuedFetches = 1
    /\ viewerOpen = FALSE
    /\ currentImageIndex = 0
    /\ imageList = "none"
    /\ currentImagePath = NoPath
    /\ preloadedImages = { }
    /\ lastPreloadedIndex = -1
    /\ failedThumbnails = { }
    /\ lastResponse = [ id |-> 0, path |-> "none", ok |-> TRUE ]
    /\ keyHandler = Snapshot(FALSE, 0, "none", -1, { })
    /\ timers = { }
    /\ fullscreen = FALSE
    /\ fsPending = FALSE
    /\ sessions = 0
    /\ warmRequests = { }
    /\ duplicateWarms = { }

\* the grid of directory items is rendered and not covered by the viewer
GridVisible == ~loading /\ error = "null" /\ directoryData # "null" /\ ~viewerOpen

\* fetchDirectory up to its await: the request is sent
fetchDirectory(path) ==
    /\ issuedFetches <= MaxFetches
    /\ loading' = TRUE
    /\ error' = "null"
    /\ inFlight' = inFlight \cup { [ id |-> issuedFetches + 1, path |-> path ] }
    /\ issuedFetches' = issuedFetches + 1
    /\ UNCHANGED << serverVars, currentPath, directoryData, failedThumbnails, lastResponse,
                    viewerVars, preloadVars >>

\* the refresh button
Refresh ==
    /\ ~viewerOpen
    /\ fetchDirectory(currentPath)

\* the retry button of the error panel
Retry ==
    /\ ~viewerOpen
    /\ error # "null"
    /\ ~loading
    /\ fetchDirectory(currentPath)

\* handlePathSubmit with the path typed
PathSubmit(path) ==
    /\ ~viewerOpen
    /\ fetchDirectory(path)

\* handleItemDoubleClick on a directory item
OpenDirectory(d) ==
    /\ GridVisible
    /\ d \in SubDirs(directoryData)
    /\ fetchDirectory(d)

\* fetchDirectory after its await, response ok
FetchOk(r) ==
    /\ r \in inFlight
    /\ ListingOf(r.path) # "null"
    /\ directoryData' = ListingOf(r.path)
    /\ currentPath' = ListingOf(r.path)
    /\ failedThumbnails' = { }
    /\ preloadedImages' = { }
    /\ lastPreloadedIndex' = -1
    /\ loading' = FALSE
    /\ inFlight' = inFlight \ { r }
    /\ lastResponse' = [ id |-> r.id, path |-> r.path, ok |-> TRUE ]
    /\ UNCHANGED << serverVars, error, issuedFetches, viewerVars, timers, warmRequests,
                    duplicateWarms >>

\* a failed request that also resets the preload state
FetchFailResetsPreload(r) ==
    /\ r \in inFlight
    /\ error' = IF ListingOf(r.path) = "null" THEN "Directory not found" ELSE "Failed to fetch"
    /\ loading' = FALSE
    /\ inFlight' = inFlight \ { r }
    /\ lastResponse' = [ id |-> r.id, path |-> r.path, ok |-> FALSE ]
    /\ preloadedImages' = { }
    /\ lastPreloadedIndex' = -1
    /\ UNCHANGED << serverVars, currentPath, directoryData, issuedFetches, failedThumbnails,
                    viewerVars, timers, warmRequests, duplicateWarms >>

\* a failed request that also forgets the failed thumbnails
FetchFailClearsFailures(r) ==
    /\ r \in inFlight
    /\ error' = IF ListingOf(r.path) = "null" THEN "Directory not found" ELSE "Failed to fetch"
    /\ loading' = FALSE
    /\ inFlight' = inFlight \ { r }
    /\ lastResponse' = [ id |-> r.id, path |-> r.path, ok |-> FALSE ]
    /\ failedThumbnails' = { }
    /\ UNCHANGED << serverVars, currentPath, directoryData, issuedFetches, viewerVars,
                    preloadVars >>

\* fetchDirectory after its await, response not ok or no response
FetchFail(r) ==
    /\ r \in inFlight
    /\ error' = IF ListingOf(r.path) = "null" THEN "Directory not found" ELSE "Failed to fetch"
    /\ loading' = FALSE
    /\ inFlight' = inFlight \ { r }
    /\ lastResponse' = [ id |-> r.id, path |-> r.path, ok |-> FALSE ]
    /\ UNCHANGED << serverVars, currentPath, directoryData, issuedFetches, failedThumbnails,
                    viewerVars, preloadVars >>

\* onError of a thumbnail of the grid
ThumbnailError(path) ==
    /\ ~loading /\ error = "null" /\ directoryData # "null"
    /\ path[1] = directoryData
    /\ path \notin failedThumbnails
    /\ failedThumbnails' = failedThumbnails \cup { path }
    /\ UNCHANGED << serverVars, currentPath, directoryData, loading, error, inFlight, issuedFetches,
                    lastResponse, viewerVars, preloadVars >>

\* the paths of the indices from..to-1 of an image list
PathsOf(list, from, to) == { << list, i >> : i \in from..(to - 1) }

\* preloadImages(startIndex) of a render whose imageList is list and whose
\* preloadedImages is pre
preloadImages(list, pre, startIndex) ==
    IF ImageCount(list) = 0
    THEN UNCHANGED << preloadedImages, lastPreloadedIndex, warmRequests, duplicateWarms >>
    ELSE LET endIndex == Min(startIndex + PRELOAD_BATCH_SIZE, ImageCount(list))
             batch == PathsOf(list, startIndex, endIndex)
         IN /\ preloadedImages' = pre \cup batch
            /\ lastPreloadedIndex' = endIndex - 1
            /\ warmRequests' = warmRequests \cup (batch \ pre)
            /\ duplicateWarms' = duplicateWarms \cup ((batch \ pre) \cap warmRequests)

\* handleItemDoubleClick on the image of index i: openImageViewerWithPreload
OpenImage(i) ==
    /\ GridVisible
    /\ sessions < MaxSessions
    /\ i \in StartIndices
    /\ i < Len(ImageItems(directoryData))
    /\ LET item == ImageItems(directoryData)[i + 1]
           index == FindIndex(ImageItems(directoryData), item.path)
       IN /\ index # -1
          /\ currentImageIndex' = index
          /\ currentImagePath' = item.path
    /\ imageList' = directoryData
    /\ viewerOpen' = TRUE
    /\ preloadedImages' = { }
    /\ lastPreloadedIndex' = -1
    /\ timers' = timers \cup { [ session |-> sessions + 1, list |-> imageList,
                                 pre |-> preloadedImages, index |-> i ] }
    /\ keyHandler' = Snapshot(TRUE, i, directoryData, -1, { })
    /\ fsPending' = TRUE
    /\ sessions' = sessions + 1
    /\ warmRequests' = { }
    /\ duplicateWarms' = { }
    /\ UNCHANGED << serverVars, pageVars, fullscreen >>

\* the timeout of openImageViewerWithPreload runs the preloadImages of the
\* render that handled the double click
TimerFires(t) ==
    /\ t \in timers
    /\ timers' = timers \ { t }
    /\ preloadImages(t.list, t.pre, t.index)
    /\ UNCHANGED << serverVars, pageVars, viewerVars >>

\* navigateImage of the render the keydown listener was registered in
navigateImage(direction) ==
    LET h == keyHandler
        n == ImageCount(h.list)
        newIndex == IF direction = "prev" THEN (h.index - 1 + n) % n
                    ELSE (h.index + 1) % n
        warms == newIndex > h.last - PRELOAD_MARGIN /\ h.last < n - 1
    IN /\ n # 0
       /\ currentImageIndex' = newIndex
       /\ currentImagePath' = << h.list, newIndex >>
       /\ IF warms
          THEN preloadImages(h.list, h.pre, h.last + 1)
          ELSE UNCHANGED << preloadedImages, lastPreloadedIndex, warmRequests, duplicateWarms >>
       /\ keyHandler' = IF newIndex # currentImageIndex
                        THEN Snapshot(viewerOpen, newIndex, imageList,
                                      lastPreloadedIndex', preloadedImages')
                        ELSE keyHandler
       /\ UNCHANGED << serverVars, pageVars, viewerOpen, imageList, fullscreen, fsPending,
                       sessions, timers >>

\* a viewer whose dismissal leaves the keydown listener of the open viewer
CloseViewerKeepsListener ==
    /\ viewerOpen' = FALSE
    /\ fullscreen' = FALSE
    /\ fsPending' = FALSE
    /\ UNCHANGED << serverVars, pageVars, currentImageIndex, imageList, currentImagePath,
                    keyHandler, sessions, preloadVars >>

\* a viewer whose cleanup leaves full-screen mode as it is
CloseViewerKeepsFullscreen ==
    /\ viewerOpen' = FALSE
    /\ keyHandler' = Snapshot(FALSE, currentImageIndex, imageList, lastPreloadedIndex,
                              preloadedImages)
    /\ fsPending' = FALSE
    /\ UNCHANGED << serverVars, pageVars, currentImageIndex, imageList, currentImagePath,
                    fullscreen, sessions, preloadVars >>

\* the viewer goes from open to closed: both effects clean up and run
\* again; full-screen mode is left if it is on, and a requestFullscreen
\* still pending is rejected, its element being removed
CloseViewer ==
    /\ viewerOpen' = FALSE
    /\ keyHandler' = Snapshot(FALSE, currentImageIndex, imageList, lastPreloadedIndex,
                              preloadedImages)
    /\ fullscreen' = FALSE
    /\ fsPending' = FALSE
    /\ UNCHANGED << serverVars, pageVars, currentImageIndex, imageList, currentImagePath,
                    sessions, preloadVars >>

\* a listener whose two arrow keys both go forward
KeyArrowAlwaysNext(direction) ==
    /\ keyHandler.open
    /\ navigateImage("next")

\* handleKeyDown
KeyArrow(direction) ==
    /\ keyHandler.open
    /\ navigateImage(direction)

KeyEscape ==
    /\ keyHandler.open
    /\ CloseViewer

\* onClick of the viewer's backdrop
BackdropClick ==
    /\ viewerOpen
    /\ CloseViewer

\* the platform leaves full-screen mode: handleFullscreenChange
FullscreenLost ==
    /\ fullscreen
    /\ viewerOpen
    /\ CloseViewer

\* the promise of requestFullscreen settles
FullscreenGranted ==
    /\ fsPending
    /\ fsPending' = FALSE
    /\ fullscreen' = TRUE
    /\ UNCHANGED << serverVars, pageVars, viewerOpen, currentImageIndex, imageList, currentImagePath,
                    keyHandler, sessions, preloadVars >>

FullscreenRefused ==
    /\ fsPending
    /\ fsPending' = FALSE
    /\ UNCHANGED << serverVars, pageVars, viewerOpen, currentImageIndex, imageList, currentImagePath,
                    keyHandler, fullscreen, sessions, preloadVars >>

ClientNext ==
    \/ Refresh
    \/ Retry
    \/ \E path \in ListTargets : PathSubmit(path)
    \/ \E d \in Dirs : OpenDirectory(d)
    \/ \E r \in inFlight : FetchOk(r)
    \/ \E r \in inFlight : FetchFail(r)
    \/ \E path \in FlakyThumbs : ThumbnailError(path)
    \/ \E i \in StartIndices : OpenImage(i)
    \/ \E t \in timers : TimerFires(t)
    \/ KeyArrow("prev")
    \/ KeyArrow("next")
    \/ KeyEscape
    \/ BackdropClick
    \/ FullscreenLost
    \/ FullscreenGranted
    \/ FullscreenRefused

\* the grid shows the thumbnail image of the item of this path: its img
\* element is mounted and has requested the thumbnail
ThumbnailShown(path) ==
    /\ ~loading /\ error = "null" /\ directoryData # "null"
    /\ \E k \in 1..Len(Items(directoryData)) :
          LET item == Items(directoryData)[k]
          IN item.path = path /\ item.type = "file" /\ item.ext \in IMAGE_EXTS
    /\ path \notin failedThumbnails

\* the grid shows the placeholder icon for the item of this path
PlaceholderShown(path) ==
    /\ ~loading /\ error = "null" /\ directoryData # "null"
    /\ \E k \in 1..Len(Items(directoryData)) :
          LET item == Items(directoryData)[k]
          IN item.path = path /\ item.type = "file" /\ item.ext \in IMAGE_EXTS
    /\ path \in failedThumbnails

\* the paths typed into the path input of the page without the viewer
PageTargets == ListTargets \cup { "A" }

\* the images whose thumbnail can fail to load there
PageThumbs == FlakyThumbs \cup { << "A", 1 >>, << "B", 0 >>, << "B", 1 >> }

\* the events of the page without the viewer
PageNext ==
    \/ Refresh
    \/ Retry
    \/ \E path \in PageTargets : PathSubmit(path)
    \/ \E d \in Dirs : OpenDirectory(d)
    \/ \E r \in inFlight : FetchOk(r)
    \/ \E r \in inFlight : FetchFail(r)
    \/ \E path \in PageThumbs : ThumbnailError(path)

\* the events of the viewer and what brings a listing to open it on
ViewerNext ==
    \/ \E d \in Dirs : OpenDirectory(d)
    \/ \E r \in inFlight : FetchOk(r)
    \/ \E r \in inFlight : FetchFail(r)
    \/ \E i \in StartIndices : OpenImage(i)
    \/ \E t \in timers : TimerFires(t)
    \/ KeyArrow("prev")
    \/ KeyArrow("next")
    \/ KeyEscape
    \/ BackdropClick
    \/ FullscreenLost
    \/ FullscreenGranted
    \/ FullscreenRefused

(***************************************************************************)
(* Specifications.                                                         *)
(***************************************************************************)
Init == ServerInit /\ ClientInit

\* the endpoints serving requests
Spec == Init /\ [][ServerNext]_vars

\* the list endpoint on every directory read of up to MaxEntries entries
SpecListing == Init /\ [][NextListing]_vars

\* the page in the browser
ClientSpecInit == Init /\ envAllow = "unset"

SpecClient == ClientSpecInit /\ [][ClientNext]_vars

\* the list endpoint and the requests the page derives from its answers
SpecRoundTrip == Init /\ [][RoundTripNext]_vars

\* the listings of the page
SpecPage == ClientSpecInit /\ [][PageNext]_vars

\* the viewer sessions of the page
SpecViewer == ClientSpecInit /\ [][ViewerNext]_vars

\* the endpoints and the page together
Next == ServerNext \/ ClientNext
(***************************************************************************)
(* Properties of the endpoints.                                            *)
(***************************************************************************)
\* a is a prefix of b, segment by segment
IsSegmentPrefix(a, b) ==
    /\ Len(a) <= Len(b)
    /\ SubSeq(b, 1, Len(a)) = a

\* the canonical path abs is the root directory or a descendant of it
WithinRoot(abs) ==
    IsSegmentPrefix(NormalizeSegs(Split(rootDir), << >>, FALSE),
                    NormalizeSegs(Split(abs), << >>, FALSE))

\* a request with a path is in progress or answered, in root-confined mode,
\* for a path whose canonical form is outside the root
ConfinedOutside(h) ==
    /\ handler = h
    /\ reqPath # EmptyStr
    /\ ~AllowOutside(envAllow)
    /\ ~WithinRoot(absPath)

\* C1: in root-confined mode the file endpoint answers 403 for every path
\* whose canonical form is neither the root nor a descendant of it by whole
\* segments, a sibling directory whose name begins with the root's included.
C1_FileOutsideRootIs403 ==
    ConfinedOutside("fileConfined") => (pc = "done" /\ resp.status = 403)

\* C2: in root-confined mode a list request for a path outside the root is
\* answered 403 and the directory is never read.
C2_ListOutsideRootIs403 ==
    (handler = "list" /\ ~AllowOutside(envAllow) /\ ~WithinRoot(absPath))
        => /\ pc = "done"
           /\ resp.status = 403
           /\ \A i \in 1..Len(fsLog) : fsLog[i] # "readdir"

\* C3: for the confinement setting in force and the requested path, every
\* handler reaches the verdict of the handler that served the request:
\* all refuse the path with the 403 of the confinement check or none does.
C3_SameConfinementVerdict ==
    (handler # "none" /\ reqPath # EmptyStr)
        => \A h \in Handlers :
              Refuses(h, envAllow, reqPath) <=> (pc = "done" /\ resp.status = 403)

\* C4: in root-confined mode a file request for an out-of-root path is
\* refused before any stat or read is issued, and its answer is 403, never
\* 404 or 400, whatever the target is.
C4_FileOutsideRootNoFsCall ==
    ConfinedOutside("fileConfined")
        => /\ fsLog = << >>
           /\ resp.status \notin { 400, 404 }
           /\ (pc = "done" => resp.status = 403)

\* the home directory joined with what follows the home marker of p
HomeJoined(p) ==
    << SLASH >> \o NormalizeString(homeDir \o << SLASH >> \o Slice(p, 1), FALSE)

\* the first segment of p is the home marker
LeadsWithHome(p) == Len(p) > 0 /\ Head(Split(p)) = << TILDE >>

\* C5: in every endpoint a requested path whose leading segment is '~'
\* resolves to the home directory joined with the rest of the path.
C5_HomeExpandedEverywhere ==
    (handler # "none" /\ LeadsWithHome(reqPath)) => absPath = HomeJoined(reqPath)

\* the visible entries of what readdir returned
VisibleEntries == { dirEntries[i] : i \in 1..Len(dirEntries) } \cap { d \in Dirents : IsVisible(d) }

ListAnswered == handler = "list" /\ pc = "done" /\ resp.status = 200

\* C6: the items of a listing are exactly the entries whose name does not
\* begin with '.', each once; every directory precedes every file and,
\* within each kind, names ascend under the name comparison.
C6_ListingFilteredAndOrdered ==
    ListAnswered =>
        LET items == resp.items
        IN /\ Len(items) = Cardinality(VisibleEntries)
           /\ \A d \in VisibleEntries :
                 \E i \in 1..Len(items) :
                    /\ items[i].name = d.name
                    /\ (items[i].type = "directory") <=> (d.kind = "dir")
           /\ \A i, j \in 1..Len(items) :
                 i < j =>
                    /\ ~(items[i].type = "file" /\ items[j].type = "directory")
                    /\ items[i].type = items[j].type
                          => LocaleCompare(items[i].name, items[j].name) <= 0

\* a listing of three entries read in an order the sort must change: a file
\* first, a hidden entry, a directory behind the file
C6_Witness ==
    /\ ListAnswered
    /\ Len(dirEntries) = 3
    /\ Len(resp.items) = 2
    /\ dirEntries[1].kind = "file" /\ IsVisible(dirEntries[1])
    /\ resp.items[1].type = "directory"

\* C7: the list endpoint answers 404 exactly when the target does not
\* exist and 400 exactly when it exists and is no directory; a stat that
\* fails for another reason is answered 500.
C7_ListErrorKinds ==
    (handler = "list" /\ pc = "done")
        => /\ (resp.status = 404) <=> (statRes = "ENOENT")
           /\ (resp.status = 400) <=> (statRes = "file")
           /\ statRes = "EACCES" => resp.status = 500

\* a thumbnail request whose path has an extension outside the allow-list
ThumbOfOtherType ==
    /\ handler = "thumbnail"
    /\ reqPath # EmptyStr
    /\ ToLowerCase(Extname(absPath)) \notin supportedImageExts

NeverReadNorDecoded ==
    \A i \in 1..Len(fsLog) : fsLog[i] \notin { "readFile", "sharp" }

UnsupportedType == JsonError(400, "File is not a supported image type")

\* C8 as stated: every thumbnail request whose extension is outside the
\* allow-list is answered with UnsupportedType, nothing read or decoded
\* (stated here for the paths that have an extension, such as e.txt).
C8_OtherTypeAlwaysUnsupported ==
    (ThumbOfOtherType /\ Extname(absPath) # EmptyStr)
        => /\ NeverReadNorDecoded
           /\ pc = "done" => resp = UnsupportedType

\* C8 amended: a thumbnail request whose extension is outside the
\* allow-list never has the file read or decoded; it is answered with
\* UnsupportedType when the target exists and is no directory, with
\* NotFound when the stat fails and with IsDirectory for a directory.
C8_OtherTypeNeverDecoded ==
    ThumbOfOtherType =>
        /\ NeverReadNorDecoded
        /\ pc = "done" =>
              /\ statRes = "file" => resp = UnsupportedType
              /\ statRes = "dir" => resp = JsonError(400, "Path is a directory, not a file")
              /\ statRes \in { "ENOENT", "EACCES" } => resp = JsonError(404, "File not found")

\* an existing text file is refused as an unsupported type after the stat
C8_Witness ==
    /\ ThumbOfOtherType
    /\ pc = "done"
    /\ statRes = "file"
    /\ resp = UnsupportedType
    /\ fsLog = << "stat" >>

\* the image format a Content-Type names
NamedFormat(ct) ==
    CASE ct = Mime_jpeg \/ ct = ImagePrefix \o << "j", "p", "g" >> -> "jpeg"
      [] ct = Mime_png -> "png"
      [] ct = Mime_gif -> "gif"
      [] ct = Mime_webp -> "webp"
      [] ct = Mime_bmp -> "bmp"
      [] ct = Mime_tiff \/ ct = ImagePrefix \o << "t", "i", "f" >> -> "tiff"
      [] ct = Mime_svg -> "svg"
      [] ct = Mime_ico -> "ico"
      [] OTHER -> "unknown"

\* the format a file with extension ext holds when its name tells the truth
FormatOfExt(ext) ==
    CASE ext = Ext_jpg \/ ext = Ext_jpeg -> "jpeg"
      [] ext = Ext_png -> "png"
      [] ext = Ext_gif -> "gif"
      [] ext = Ext_tiff \/ ext = Ext_tif -> "tiff"
      [] ext = Ext_svg -> "svg"
      [] OTHER -> "text"

\* C9: a resized thumbnail is encoded in the input's format, GIF and TIFF
\* inputs (.gif, .tiff, .tif) in PNG, and the Content-Type names the format
\* of the bytes sent (stated for files that hold what their extension says).
C9_ThumbnailFormatMatchesHeader ==
    (handler = "thumbnail" /\ pc = "done" /\ resp.status = 200
       /\ fileBytes = FormatOfExt(ToLowerCase(Extname(absPath)))
       /\ \E i \in 1..Len(fsLog) : fsLog[i] = "sharp")
        => /\ resp.body = IF fileBytes \in { "gif", "tiff" } THEN "png" ELSE fileBytes
           /\ NamedFormat(resp.contentType) = resp.body

(***************************************************************************)
(* Properties of the page.                                                 *)
(***************************************************************************)
\* the deferred warm of the current viewer session runs in this step
InitialWarmRuns(t) ==
    /\ t \in timers
    /\ t \notin timers'
    /\ t.session = sessions
    /\ viewerOpen

\* C10: opening a viewer session at index i of n images empties the preload
\* state, and the deferred warm of the session, finding it still empty,
\* warms exactly the indices i .. min(i+20, n)-1 of the session's images and
\* leaves the high-water mark at min(i+20, n)-1.
C10_OpenWarmsFirstBatch ==
    [][ /\ sessions' = sessions + 1
            => (preloadedImages' = { } /\ lastPreloadedIndex' = -1)
        /\ \A t \in timers :
              (InitialWarmRuns(t) /\ preloadedImages = { } /\ lastPreloadedIndex = -1)
                  => LET endIndex == Min(t.index + PRELOAD_BATCH_SIZE, ImageCount(imageList))
                         batch == PathsOf(imageList, t.index, endIndex)
                     IN /\ preloadedImages' = batch
                        /\ lastPreloadedIndex' = endIndex - 1
                        /\ batch \subseteq warmRequests'
      ]_vars

\* the paths of the images of an image list
ImagePaths(list) == PathsOf(list, 0, ImageCount(list))

\* C11: after a session reset, while the new viewer session lasts, every
\* path fetched for warming and every path recorded as warmed is a path of
\* the session's image set, and the high-water mark is an index of it.
C11_WarmedBelongsToSession ==
    viewerOpen =>
        /\ warmRequests \subseteq ImagePaths(imageList)
        /\ preloadedImages \subseteq ImagePaths(imageList)
        /\ lastPreloadedIndex < ImageCount(imageList)

\* a step of the open viewer that moves to another image
Navigates ==
    /\ viewerOpen
    /\ viewerOpen'
    /\ sessions' = sessions
    /\ currentImageIndex' # currentImageIndex

\* a and b are no more than d indices apart
Within(a, b, d) == a - b <= d /\ b - a <= d

\* C12: a navigation to newIndex warms if and only if newIndex is within 10
\* positions of the high-water mark h and h is below the last index n-1;
\* the batch is then exactly the indices h+1 .. min(h+21, n)-1, and
\* otherwise the preload state is left as it is.
C12_NavigationWarmsNextBatch ==
    [][ Navigates =>
          LET h == lastPreloadedIndex
              n == ImageCount(imageList)
              endIndex == Min(h + 1 + PRELOAD_BATCH_SIZE, n)
          IN IF Within(currentImageIndex', h, PRELOAD_MARGIN) /\ h < n - 1
             THEN /\ preloadedImages' = preloadedImages \cup PathsOf(imageList, h + 1, endIndex)
                  /\ lastPreloadedIndex' = endIndex - 1
             ELSE UNCHANGED << preloadedImages, lastPreloadedIndex, warmRequests >>
      ]_vars

\* C13: within one viewer session no image path has its background fetch
\* issued more than once, whatever the order of the key events and of the
\* deferred warm.
C13_NoDuplicateWarmFetch == duplicateWarms = { }

\* C14: while the viewer is open on n >= 1 images, 'next' sets the index to
\* (index + 1) mod n and 'prev' to (index - 1) mod n, and the image shown
\* follows: a key step of the open viewer that leaves it open moves the
\* index by one with wraparound, and each of the two moves is what the
\* respective key does.
C14_NavigationWraps ==
    [][ LET n == ImageCount(imageList)
            up == (currentImageIndex + 1) % n
            down == (currentImageIndex + n - 1) % n
        IN /\ (viewerOpen /\ viewerOpen' /\ sessions' = sessions
                   /\ currentImagePath' # currentImagePath)
               => /\ currentImageIndex' \in { up, down }
                  /\ currentImagePath' = << imageList, currentImageIndex' >>
           /\ (viewerOpen /\ n >= 1)
               => /\ ENABLED (KeyArrow("next") /\ currentImageIndex' = up)
                  /\ ENABLED (KeyArrow("prev") /\ currentImageIndex' = down)
                  /\ ~ ENABLED (KeyArrow("next") /\ currentImageIndex' # up)
                  /\ ~ ENABLED (KeyArrow("prev") /\ currentImageIndex' # down)
      ]_vars

\* the first session, opened at index 0, has wrapped to the last image with
\* 'prev': no other way leads there with only the first batch warmed
C14_Witness ==
    /\ viewerOpen
    /\ sessions = 1
    /\ ImageCount(imageList) = BigDir
    /\ currentImageIndex = BigDir - 1
    /\ currentImagePath = << imageList, BigDir - 1 >>
    /\ lastPreloadedIndex = PRELOAD_BATCH_SIZE - 1

\* C15: while the viewer is open the index is an index of the session's
\* image set, and on opening it is the position of the activated entry
\* among the listing's files with a supported image extension.
C15_IndexValid ==
    [][ /\ viewerOpen' =>
              /\ 0 <= currentImageIndex'
              /\ currentImageIndex' < ImageCount(imageList')
              /\ Len(ImageItems(imageList')) = ImageCount(imageList')
        /\ sessions' = sessions + 1 =>
              /\ viewerOpen'
              /\ imageList' = directoryData
              /\ \E j \in 1..Len(Items(directoryData)) :
                    /\ IsImageItem(Items(directoryData)[j])
                    /\ Items(directoryData)[j].path = currentImagePath'
                    /\ currentImageIndex' =
                           Cardinality({ k \in 1..(j - 1) : IsImageItem(Items(directoryData)[k]) })
      ]_vars

\* the viewer was opened on the image that is the eleventh image and the
\* thirteenth item of its listing
C15_Witness ==
    /\ viewerOpen
    /\ currentImageIndex = 10
    /\ currentImagePath = << imageList, 10 >>
    /\ Items(imageList)[13].path = currentImagePath
    /\ keyHandler.index = 10
    /\ preloadedImages = { }

\* C16: from the open viewer the click outside the image, the Escape key
\* and the platform's exit from full-screen mode are all available (the
\* last when full-screen mode is on) and lead to one and the same closed
\* state, in which full-screen mode is off and no request for it is pending.
C16_DismissConverges ==
    [][ /\ viewerOpen => (ENABLED BackdropClick /\ ENABLED KeyEscape)
        /\ (viewerOpen /\ fullscreen) => ENABLED FullscreenLost
        /\ (viewerOpen /\ ~viewerOpen') =>
              /\ ~fullscreen'
              /\ ~fsPending'
              /\ ~keyHandler'.open
              /\ UNCHANGED << pageVars, currentImageIndex, imageList, currentImagePath,
                              sessions, preloadVars >>
      ]_vars

\* the viewer, full screen on its twelfth image, has been dismissed
C16_Witness ==
    /\ ~viewerOpen
    /\ sessions = 1
    /\ currentImageIndex = 11
    /\ ~fullscreen
    /\ ~fsPending
    /\ ~keyHandler.open

\* C17: once the viewer has been dismissed, and until a new session is
\* opened, no step other than the arrival of a listing issues a warm
\* request or changes the preload state.
C17_NoWarmAfterClose ==
    [][ (~viewerOpen /\ ~viewerOpen' /\ sessions >= 1 /\ inFlight' = inFlight)
            => UNCHANGED << preloadedImages, lastPreloadedIndex, warmRequests >>
      ]_vars

\* C18: whenever no full-screen request or release is pending, the viewer
\* is open if and only if full-screen mode is on.
C18_OpenIffFullscreen == ~fsPending => (viewerOpen <=> fullscreen)

\* C19: whenever the viewer is closed, no keydown listener of the viewer is
\* registered.
C19_NoListenerWhileClosed == ~viewerOpen => KeydownListeners = { }

\* C19, as the code has it: one keydown listener is registered at all
\* times; it holds the viewerOpen of the current state, and while the
\* viewer is closed neither an arrow key nor Escape changes anything.
C19_ClosedListenerInert ==
    /\ Cardinality(KeydownListeners) = 1
    /\ \A h \in KeydownListeners : h.open = viewerOpen
    /\ ~viewerOpen =>
          /\ ~ ENABLED KeyArrow("prev")
          /\ ~ ENABLED KeyArrow("next")
          /\ ~ ENABLED KeyEscape

\* the viewer has been dismissed and the listener of the closed viewer
\* holds the image list of the session
C19_Witness ==
    /\ ~viewerOpen
    /\ sessions = 1
    /\ \E h \in KeydownListeners : ~h.open /\ h.list = imageList /\ ImageCount(h.list) > 0

\* a listing request succeeds in this step and its listing replaces the
\* one held
ListingReplaced ==
    \E r \in inFlight \ inFlight' :
        /\ ListingOf(r.path) # "null"
        /\ directoryData' = ListingOf(r.path)
        /\ currentPath' = ListingOf(r.path)

\* C20: a path whose thumbnail has failed stays in the record of failed
\* paths, is shown with the placeholder whenever the grid is shown and has
\* no thumbnail image mounted again, for as long as no listing request
\* succeeds; the record loses paths only in a step in which a listing
\* request succeeds, and every such step leaves it empty.
C20_FailedThumbnailRemembered ==
    [][ /\ \A path \in failedThumbnails :
              path \in failedThumbnails'
                  => /\ ~ThumbnailShown(path)'
                     /\ (~loading' /\ error' = "null") => PlaceholderShown(path)'
        /\ failedThumbnails \ failedThumbnails' # { }
              => (ListingReplaced /\ failedThumbnails' = { })
        /\ \A r \in inFlight : ~ ENABLED (FetchOk(r) /\ failedThumbnails' # { })
      ]_vars

\* the thumbnail of the first image has failed and the grid shows its
\* placeholder; another listing request is still in flight
C20_Witness ==
    /\ PlaceholderShown(<< "A", 0 >>)
    /\ ~ThumbnailShown(<< "A", 0 >>)
    /\ ThumbnailShown(<< "A", 1 >>)
    /\ ~PlaceholderShown(<< "B", 0 >>)
    /\ inFlight # { }

\* the highest index of the image list whose path is in the set, -1 if none
HighestWarmed(list, pre) ==
    LET warmed == { i \in 0..(ImageCount(list) - 1) : << list, i >> \in pre }
    IN IF warmed = { } THEN -1
       ELSE CHOOSE i \in warmed : \A j \in warmed : j <= i

\* C21: in every state of a viewer session the high-water mark is -1 when
\* no path is warmed and otherwise the highest index of the session's image
\* set whose path is warmed; it is below the size of the image set and does
\* not decrease while the session lasts.
C21_HighWaterMark ==
    [][ /\ viewerOpen' =>
              /\ preloadedImages' = { } => lastPreloadedIndex' = -1
              /\ preloadedImages' # { }
                    => lastPreloadedIndex' = HighestWarmed(imageList', preloadedImages')
              /\ lastPreloadedIndex' < ImageCount(imageList')
        /\ (viewerOpen /\ viewerOpen' /\ sessions' = sessions)
              => lastPreloadedIndex' >= lastPreloadedIndex
      ]_vars

\* two request paths name the same directory
SameDirectory(p, q) == p = q \/ (ListingOf(p) # "null" /\ ListingOf(p) = ListingOf(q))

\* C22: when the listing request answered last has failed and the error
\* panel is shown, its retry button requests the path of that failed
\* request and no other.
C22_RetryRequestsFailedPath ==
    (~lastResponse.ok /\ error # "null" /\ ~loading)
        => ~ ENABLED ( /\ Retry
                       /\ \E q \in inFlight' \ inFlight :
                             ~SameDirectory(q.path, lastResponse.path) )

\* a listing request is answered in this step
Answered(r) == r \in inFlight /\ r \notin inFlight'

\* C23: with several listing requests in flight, only the answer to the
\* request issued last changes the listing and the current path, so that
\* after all answers these are the ones of the request issued last whatever
\* the order of arrival; and the loading indicator stays on while a request
\* is in flight.
C23_LatestRequestWins ==
    [][ /\ \A r \in inFlight :
              (Answered(r) /\ r.id < issuedFetches)
                  => UNCHANGED << directoryData, currentPath >>
        /\ \A r \in inFlight :
              (Answered(r) /\ r.id = issuedFetches /\ lastResponse'.ok)
                  => /\ directoryData' = ListingOf(r.path)
                     /\ currentPath' = ListingOf(r.path)
        /\ inFlight' # { } => loading'
      ]_vars

ParentOf(path) ==
    LET parts == GoUpParts(path)
    IN << SLASH >> \o JoinSegs(SubSeq(parts, 1, Len(parts) - 1))

\* C25: when the current path has two segments or more, 'go up' requests
\* the listing of exactly the parent directory of the current absolute
\* path; with one segment or none it issues no request.
C25_GoUpRequestsParent ==
    HoldsListing =>
        IF Len(GoUpParts(resp.path)) >= 2
        THEN /\ ENABLED handleGoUp
             /\ ~ ENABLED (handleGoUp /\ absPath' # ParentOf(resp.absolutePath))
        ELSE ~ ENABLED handleGoUp

\* C26: for every entry of a list response for a directory D, the entry's
\* path sent back to the list, file or thumbnail endpoint resolves to the
\* absolute path D/name of that entry.
C26_EntryPathRoundTrip ==
    HoldsListing =>
        \A h \in Handlers : \A i \in 1..Len(resp.items) :
            ~ ENABLED ( /\ OpenEntry(h, i)
                        /\ absPath' # PathJoin(resp.absolutePath, resp.items[i].name) )

====
